---- MODULE Spec2Model ----
(***************************************************************************)
(* A model of impulse-rs: bodies, mass properties, narrow-phase collision, *)
(* manifolds and the Scene::step pipeline.                                 *)
(*                                                                         *)
(* Real (noisy_float N32, an f32) is modelled by exact rationals: a pair   *)
(* <<n, d>> in lowest terms with d > 0.  +, -, * and / are exact.  sqrt,   *)
(* cos and sin have a value only where it is rational: sqrt on squares of  *)
(* rationals, cos and sin at 0.  The scenes and calls of the model are     *)
(* chosen inside that domain: no state they reach takes another root or   *)
(* turns a polygon.  f32 rounding, infinities and NaN are outside it: a    *)
(* division by zero, the root of a number that is not a rational square    *)
(* and the cosine of a nonzero angle stop the evaluation instead of        *)
(* yielding a value.                                                       *)
(***************************************************************************)
EXTENDS Integers, Sequences, FiniteSets, TLC

\* ------------------------------------------------------------- rationals

Abs(i) == IF i < 0 THEN -i ELSE i

RECURSIVE GCD(_, _)
GCD(a, b) == IF b = 0 THEN a ELSE GCD(b, a % b)

\* The rational n/d (d # 0) in lowest terms with a positive denominator.
R(n, d) ==
    LET g == GCD(Abs(n), Abs(d))
        s == IF d < 0 THEN -1 ELSE 1
    IN  <<(s * n) \div g, (s * d) \div g>>

Zero == <<0, 1>>
One == <<1, 1>>

RNeg(a) == <<-a[1], a[2]>>
RAdd(a, b) ==
    IF a[2] = b[2] THEN R(a[1] + b[1], a[2])
    ELSE LET g == GCD(a[2], b[2])
         IN  R(a[1] * (b[2] \div g) + b[1] * (a[2] \div g), a[2] * (b[2] \div g))
RSub(a, b) == RAdd(a, RNeg(b))
\* a * b; both factors are evaluated, so that 0 * (1 / 0) has no value.
RMul(a, b) ==
    LET g1 == GCD(Abs(a[1]), b[2])
        g2 == GCD(Abs(b[1]), a[2])
    IN  IF 0 \in {a[1], b[1]} THEN Zero
        ELSE <<(a[1] \div g1) * (b[1] \div g2), (a[2] \div g2) * (b[2] \div g1)>>
\* 1 / a; no value for a = 0.
RInv(a) == CHOOSE r \in {IF a[1] < 0 THEN <<-a[2], -a[1]>> ELSE <<a[2], a[1]>>} : a[1] # 0
RDiv(a, b) == RMul(a, RInv(b))
\* The sign of a - b (-1, 0 or 1), by comparing the continued fractions of a
\* and b: no product is formed, so no comparison leaves the integers of TLC.
RECURSIVE RCmp(_, _)
RCmp(a, b) ==
    LET qa == a[1] \div a[2]
        qb == b[1] \div b[2]
        ra == a[1] % a[2]
        rb == b[1] % b[2]
    IN  IF qa # qb THEN (IF qa < qb THEN -1 ELSE 1)
        ELSE IF ra = 0 /\ rb = 0 THEN 0
        ELSE IF ra = 0 THEN -1
        ELSE IF rb = 0 THEN 1
        ELSE RCmp(<<b[2], rb>>, <<a[2], ra>>)
RLt(a, b) == RCmp(a, b) < 0
RLe(a, b) == RCmp(a, b) <= 0
RGt(a, b) == RLt(b, a)
RGe(a, b) == RLe(b, a)
RAbs(a) == <<Abs(a[1]), a[2]>>
RMax(a, b) == IF RLt(a, b) THEN b ELSE a
RMin(a, b) == IF RLt(b, a) THEN b ELSE a
RSq(a) == RMul(a, a)

\* floor(sqrt(n)) for n >= 0, by bisection on lo..hi.
RECURSIVE ISqrtIn(_, _, _)
ISqrtIn(n, lo, hi) ==
    IF lo >= hi THEN lo
    ELSE LET mid == (lo + hi + 1) \div 2
         IN  IF mid <= n \div mid THEN ISqrtIn(n, mid, hi) ELSE ISqrtIn(n, lo, mid - 1)
ISqrt(n) == IF n <= 0 THEN 0 ELSE ISqrtIn(n, 1, IF n < 46340 THEN n ELSE 46340)

\* a is the square of a rational: the arguments on which f32::sqrt is modelled.
IsSquare(a) == a[1] >= 0 /\ ISqrt(a[1]) * ISqrt(a[1]) = a[1] /\ ISqrt(a[2]) * ISqrt(a[2]) = a[2]

\* f32::sqrt: the non-negative root of the square of a rational; no value for
\* any other argument (an irrational root, or the NaN of a negative argument).
RSqrt(a) == CHOOSE r \in {<<ISqrt(a[1]), ISqrt(a[2])>>} : IsSquare(a)

\* ------------------------------------------------------ types.rs: Vec2, Mat2

Vec2(x, y) == [x |-> x, y |-> y]
VZero == Vec2(Zero, Zero)
VAdd(a, b) == Vec2(RAdd(a.x, b.x), RAdd(a.y, b.y))
VSub(a, b) == Vec2(RSub(a.x, b.x), RSub(a.y, b.y))
VNeg(a) == Vec2(RNeg(a.x), RNeg(a.y))
VScale(a, s) == Vec2(RMul(a.x, s), RMul(a.y, s))
VDiv(a, s) == Vec2(RDiv(a.x, s), RDiv(a.y, s))
dot(a, b) == RAdd(RMul(a.x, b.x), RMul(a.y, b.y))
magnitude(a) == RSqrt(dot(a, a))
normalize(a) == VDiv(a, magnitude(a))

\* cgmath Matrix2::new(c0r0, c0r1, c1r0, c1r1): column-major.
Mat2(c0r0, c0r1, c1r0, c1r1) == [c0r0 |-> c0r0, c0r1 |-> c0r1, c1r0 |-> c1r0, c1r1 |-> c1r1]
MatIdentity == Mat2(One, Zero, Zero, One)
MatTranspose(m) == Mat2(m.c0r0, m.c1r0, m.c0r1, m.c1r1)
MatMulVec(m, v) ==
    Vec2(RAdd(RMul(m.c0r0, v.x), RMul(m.c1r0, v.y)),
         RAdd(RMul(m.c0r1, v.x), RMul(m.c1r1, v.y)))

\* f32 PI, to within one unit in the last place.
PI == R(355, 113)

\* ----------------------------------------------------------- scene.rs constants

GRAVITY == Vec2(Zero, R(500, 1))
EPSILON == R(1, 10000)
FRAME_TIME == R(1, 60)
Iterations == 10

\* ---------------------------------------------------------------- operations.rs

cross_real_vector(a, v) == Vec2(RMul(RNeg(a), v.y), RMul(a, v.x))
cross_vectors(a, b) == RSub(RMul(a.x, b.y), RMul(a.y, b.x))
len_sqr(v) == RAdd(RSq(v.x), RSq(v.y))
dist_sqr(a, b) == LET c == VSub(a, b) IN dot(c, c)
float_cmp(a, b) == RLe(RAbs(RSub(a, b)), EPSILON)

\* ---------------------------------------------------------------------- body.rs

\* f32::cos and f32::sin at 0; the cosine and sine of every other angle of the
\* model are irrational and have no value.
RCos(x) == CHOOSE c \in {One} : x = Zero
RSin(x) == CHOOSE r \in {Zero} : x = Zero

PolygonShapeVertex(position, normal) == [position |-> position, normal |-> normal]
Circle(radius) == [kind |-> "Circle", radius |-> radius]
Polygon(orientation, vertices) ==
    [kind |-> "Polygon", orientation |-> orientation, vertices |-> vertices]

\* Shape::rect
rect(h) ==
    Polygon(MatIdentity,
        << PolygonShapeVertex(Vec2(RNeg(h.x), RNeg(h.y)), Vec2(Zero, RNeg(One))),
           PolygonShapeVertex(Vec2(h.x, RNeg(h.y)), Vec2(One, Zero)),
           PolygonShapeVertex(Vec2(h.x, h.y), Vec2(Zero, One)),
           PolygonShapeVertex(Vec2(RNeg(h.x), h.y), Vec2(RNeg(One), Zero)) >>)

MassData(moment_inertia, inv_inertia, mass, inv_mass) ==
    [moment_inertia |-> moment_inertia, inv_inertia |-> inv_inertia,
     mass |-> mass, inv_mass |-> inv_mass]

\* vertices.chunks(2): the number of chunks, and the pair (p1, p2) of chunk k
\* (p2 = p1 for a last chunk of one vertex).
NumChunks(vertices) == (Len(vertices) + 1) \div 2
ChunkP1(vertices, k) == vertices[2 * k - 1].position
ChunkP2(vertices, k) ==
    IF 2 * k <= Len(vertices) THEN vertices[2 * k].position ELSE vertices[2 * k - 1].position

\* The accumulators [c, area, i] of compute_mass after the first k chunks.
RECURSIVE PolygonAccumulate(_, _)
PolygonAccumulate(vertices, k) ==
    IF k = 0 THEN [c |-> VZero, area |-> Zero, i |-> Zero]
    ELSE LET acc == PolygonAccumulate(vertices, k - 1)
             p1 == ChunkP1(vertices, k)
             p2 == ChunkP2(vertices, k)
             k_inv3 == R(1, 3)
             d == cross_vectors(p1, p2)
             triangle_area == RMul(R(1, 2), d)
             intx2 == RAdd(RAdd(RMul(p1.x, p1.x), RMul(p2.x, p1.x)), RMul(p2.x, p2.x))
             inty2 == RAdd(RAdd(RMul(p1.y, p1.y), RMul(p2.y, p1.y)), RMul(p2.y, p2.y))
         IN  [c |-> VAdd(acc.c, VScale(VAdd(p1, p2), RMul(triangle_area, k_inv3))),
              area |-> RAdd(acc.area, triangle_area),
              i |-> RAdd(acc.i, RMul(RMul(RMul(R(1, 4), k_inv3), d), RAdd(intx2, inty2)))]

\* The centroid compute_mass subtracts from every vertex: c * (1 / area).
PolygonCentroid(vertices) ==
    LET acc == PolygonAccumulate(vertices, NumChunks(vertices))
    IN  VScale(acc.c, RDiv(One, acc.area))

\* The shape compute_mass leaves behind: a polygon's vertices translated by -c.
ShapeAfterMass(shape) ==
    IF shape.kind = "Circle" THEN shape
    ELSE LET c == PolygonCentroid(shape.vertices)
         IN  Polygon(shape.orientation,
                 [n \in 1..Len(shape.vertices) |->
                     PolygonShapeVertex(VSub(shape.vertices[n].position, c),
                                        shape.vertices[n].normal)])

\* The MassData a polygon gets from mass m = density * area and inertia
\* i = i * density: the struct literal stores m as moment_inertia and i as mass.
PolygonMassData(m, i) ==
    MassData(m, IF m # Zero THEN RDiv(One, m) ELSE Zero,
             i, IF i # Zero THEN RDiv(One, i) ELSE Zero)

compute_mass(shape, density) ==
    IF shape.kind = "Circle"
    THEN LET m == RMul(RMul(RMul(PI, shape.radius), shape.radius), density)
             i == RMul(RMul(m, shape.radius), shape.radius)
         IN  MassData(i, IF i # Zero THEN RDiv(One, i) ELSE Zero,
                      m, IF m # Zero THEN RDiv(One, m) ELSE Zero)
    ELSE LET acc == PolygonAccumulate(shape.vertices, NumChunks(shape.vertices))
             m == RMul(density, acc.area)
             i == RMul(acc.i, density)
         IN  PolygonMassData(m, i)

\* Body::with_density
with_density(shape, position, density) ==
    LET Body(mass_data) ==
            [shape |-> ShapeAfterMass(shape),
             position |-> position,
             velocity |-> VZero,
             angular_velocity |-> Zero,
             torque |-> Zero,
             orient |-> Zero,
             force |-> VZero,
             static_friction |-> R(1, 2),
             dynamic_friction |-> R(3, 10),
             restitution |-> R(1, 5),
             moment_inertia |-> mass_data.moment_inertia,
             inv_inertia |-> mass_data.inv_inertia,
             mass |-> mass_data.mass,
             inv_mass |-> mass_data.inv_mass]
    IN  Body(compute_mass(shape, density))

\* Body::new
new_body(shape, position) == with_density(shape, position, One)

\* Body::apply_force
apply_force(body, force) == [body EXCEPT !.force = VAdd(body.force, force)]

\* Body::apply_impulse
body_apply_impulse(body, impulse, contact_vector) ==
    [body EXCEPT
        !.velocity = VAdd(body.velocity, VScale(impulse, body.inv_mass)),
        !.angular_velocity =
            RAdd(body.angular_velocity,
                 RMul(body.inv_inertia, cross_vectors(contact_vector, impulse)))]

\* Body::set_static
set_static(body) ==
    [body EXCEPT !.moment_inertia = Zero, !.inv_inertia = Zero,
                 !.mass = Zero, !.inv_mass = Zero]

\* Body::set_orient
set_orient(body, radians) ==
    LET c == RCos(RNeg(radians))
        s == RSin(RNeg(radians))
    IN  IF body.shape.kind = "Circle" THEN [body EXCEPT !.orient = radians]
        ELSE [body EXCEPT !.orient = radians,
                          !.shape.orientation = Mat2(c, RNeg(s), s, c)]

\* integrate_forces taking a whole step where the code takes half of one.
integrate_forces_whole(body, delta) ==
    IF body.inv_mass = Zero THEN body
    ELSE [body EXCEPT
             !.velocity = VAdd(body.velocity,
                 VScale(VAdd(VScale(body.force, body.inv_mass), GRAVITY), delta)),
             !.angular_velocity = RAdd(body.angular_velocity,
                 RMul(RMul(body.torque, body.inv_inertia), delta))]

\* Body::integrate_forces
integrate_forces(body, delta) ==
    IF body.inv_mass = Zero THEN body
    ELSE LET half == RDiv(delta, R(2, 1))
         IN  [body EXCEPT
                 !.velocity = VAdd(body.velocity,
                     VScale(VAdd(VScale(body.force, body.inv_mass), GRAVITY), half)),
                 !.angular_velocity = RAdd(body.angular_velocity,
                     RMul(RMul(body.torque, body.inv_inertia), half))]

\* integrate_velocity without the early return for a static body.
integrate_velocity_unguarded(body, delta) ==
    LET moved == [body EXCEPT !.position = VAdd(body.position, VScale(body.velocity, delta))]
        orient == RAdd(body.orient, RMul(body.angular_velocity, delta))
    IN  integrate_forces(set_orient(moved, orient), delta)

\* Body::integrate_velocity
integrate_velocity(body, delta) ==
    IF body.inv_mass = Zero THEN body
    ELSE LET moved == [body EXCEPT !.position = VAdd(body.position, VScale(body.velocity, delta))]
             orient == RAdd(body.orient, RMul(body.angular_velocity, delta))
         IN  integrate_forces(set_orient(moved, orient), delta)

\* ----------------------------------------------------------------- collision.rs

ManifoldData(pair, penetration, normal, contacts) ==
    [pair |-> pair, penetration |-> penetration, normal |-> normal, contacts |-> contacts]

\* Option<ManifoldData>: None is the empty sequence, Some(m) is <<m>>.
None == << >>
Some(m) == <<m>>

\* The loop of initialize with the resting threshold |GRAVITY * delta|^2 alone,
\* without EPSILON.
RECURSIVE InitializeENoEpsilon(_, _, _, _, _)
InitializeENoEpsilon(data, delta, body_a, body_b, k) ==
    IF k = 0 THEN RMin(body_a.restitution, body_b.restitution)
    ELSE LET e == InitializeENoEpsilon(data, delta, body_a, body_b, k - 1)
             contact == data.contacts[k]
             ra == VSub(contact, body_a.position)
             rb == VSub(contact, body_b.position)
             rv == VSub(VSub(VAdd(body_b.velocity, cross_real_vector(body_b.angular_velocity, rb)),
                             body_a.velocity),
                        cross_real_vector(body_a.angular_velocity, ra))
         IN  IF RLt(len_sqr(rv),
                    len_sqr(Vec2(RMul(GRAVITY.x, delta), RMul(GRAVITY.y, delta))))
             THEN Zero ELSE e

\* ManifoldData::initialize: the restitution after the loop over the first k contacts.
RECURSIVE InitializeE(_, _, _, _, _)
InitializeE(data, delta, body_a, body_b, k) ==
    IF k = 0 THEN RMin(body_a.restitution, body_b.restitution)
    ELSE LET e == InitializeE(data, delta, body_a, body_b, k - 1)
             contact == data.contacts[k]
             ra == VSub(contact, body_a.position)
             rb == VSub(contact, body_b.position)
             rv == VSub(VSub(VAdd(body_b.velocity, cross_real_vector(body_b.angular_velocity, rb)),
                             body_a.velocity),
                        cross_real_vector(body_a.angular_velocity, ra))
         IN  IF RLt(len_sqr(rv),
                    RAdd(len_sqr(Vec2(RMul(GRAVITY.x, delta), RMul(GRAVITY.y, delta))), EPSILON))
             THEN Zero ELSE e

\* ManifoldData::initialize
initialize(data, delta, body_a, body_b) ==
    [pair |-> data.pair,
     penetration |-> data.penetration,
     normal |-> data.normal,
     contacts |-> data.contacts,
     e |-> InitializeE(data, delta, body_a, body_b, Len(data.contacts)),
     df |-> RSqrt(RSq(body_a.dynamic_friction)),
     sf |-> RSqrt(RSq(body_a.static_friction))]

\* circle_circle rejecting only centres farther apart than the radius sum.
circle_circle_touching(i_a, radius_a, body_a, i_b, radius_b, body_b) ==
    LET normal == VSub(body_b.position, body_a.position)
        dist_sq == len_sqr(normal)
        radius == RAdd(radius_a, radius_b)
        distance == RSqrt(dist_sq)
        normal_over_distance == VDiv(normal, distance)
    IN  IF RGt(dist_sq, RSq(radius)) THEN None
        ELSE IF distance = Zero
        THEN Some(ManifoldData(<<i_a, i_b>>, radius_a, Vec2(One, Zero), <<body_a.position>>))
        ELSE Some(ManifoldData(<<i_a, i_b>>, RSub(radius, distance), normal_over_distance,
                  <<VAdd(VScale(normal_over_distance, radius_a), body_a.position)>>))

\* circle_circle; body indices are those of the Rust code (from 0).
circle_circle(i_a, radius_a, body_a, i_b, radius_b, body_b) ==
    LET normal == VSub(body_b.position, body_a.position)
        dist_sq == len_sqr(normal)
        radius == RAdd(radius_a, radius_b)
        distance == RSqrt(dist_sq)
        normal_over_distance == VDiv(normal, distance)
    IN  IF RGe(dist_sq, RSq(radius)) THEN None
        ELSE IF distance = Zero
        THEN Some(ManifoldData(<<i_a, i_b>>, radius_a, Vec2(One, Zero), <<body_a.position>>))
        ELSE Some(ManifoldData(<<i_a, i_b>>, RSub(radius, distance), normal_over_distance,
                  <<VAdd(VScale(normal_over_distance, radius_a), body_a.position)>>))

\* The loop over the faces returning None already for s = radius_a.
RECURSIVE FaceScanClosed(_, _, _, _)
FaceScanClosed(vertices_b, center, radius_a, k) ==
    IF k = 0 THEN [none |-> FALSE, unset |-> TRUE, separation |-> Zero, face_normal |-> 1]
    ELSE LET prev == FaceScanClosed(vertices_b, center, radius_a, k - 1)
             vertex == vertices_b[k]
             s == dot(vertex.normal, VSub(center, vertex.position))
         IN  IF prev.none THEN prev
             ELSE IF RGe(s, radius_a) THEN [prev EXCEPT !.none = TRUE]
             ELSE IF prev.unset \/ RGt(s, prev.separation)
             THEN [none |-> FALSE, unset |-> FALSE, separation |-> s, face_normal |-> k]
             ELSE prev

\* circle_polygon's loop over the first k faces: whether it returned None, and the
\* separation and face_normal (from 1) so far; unset stands for f32::MIN.
RECURSIVE FaceScan(_, _, _, _)
FaceScan(vertices_b, center, radius_a, k) ==
    IF k = 0 THEN [none |-> FALSE, unset |-> TRUE, separation |-> Zero, face_normal |-> 1]
    ELSE LET prev == FaceScan(vertices_b, center, radius_a, k - 1)
             vertex == vertices_b[k]
             s == dot(vertex.normal, VSub(center, vertex.position))
         IN  IF prev.none THEN prev
             ELSE IF RGt(s, radius_a) THEN [prev EXCEPT !.none = TRUE]
             ELSE IF prev.unset \/ RGt(s, prev.separation)
             THEN [none |-> FALSE, unset |-> FALSE, separation |-> s, face_normal |-> k]
             ELSE prev

\* circle_polygon's vertex branch: the closest feature is vertex v.
VertexContact(i_a, i_b, radius_a, center, v, orientation_b, pos_b, penetration) ==
    LET Normalized(n) == IF ~float_cmp(magnitude(n), Zero) THEN normalize(n) ELSE n
    IN  IF RGt(dist_sqr(center, v.position), RSq(radius_a)) THEN None
        ELSE Some(ManifoldData(<<i_a, i_b>>, penetration,
                  Normalized(MatMulVec(orientation_b, VSub(v.position, center))),
                  <<VAdd(MatMulVec(orientation_b, v.position), pos_b)>>))

\* circle_polygon after its loop over the faces: center is the circle's centre in
\* the polygon's frame, scan the result of the loop.
ClosestFeature(i_a, radius_a, pos_a, i_b, orientation_b, vertices_b, pos_b, center, scan) ==
    LET separation == scan.separation
        v1 == vertices_b[scan.face_normal]
        v2 == vertices_b[IF scan.face_normal + 1 <= Len(vertices_b)
                         THEN scan.face_normal + 1 ELSE 1]
        dot1 == dot(VSub(center, v1.position), VSub(v2.position, v1.position))
        dot2 == dot(VSub(center, v2.position), VSub(v1.position, v2.position))
        penetration == RSub(radius_a, separation)
        Toward(pen, normal) ==
            Some(ManifoldData(<<i_a, i_b>>, pen, normal,
                              <<VAdd(VScale(normal, radius_a), pos_a)>>))
    IN  IF scan.none THEN None
        ELSE IF RLt(separation, EPSILON)
        THEN Toward(radius_a, VNeg(MatMulVec(orientation_b, v1.normal)))
        ELSE IF RLe(dot1, Zero)
        THEN VertexContact(i_a, i_b, radius_a, center, v1, orientation_b, pos_b, penetration)
        ELSE IF RLe(dot2, Zero)
        THEN VertexContact(i_a, i_b, radius_a, center, v2, orientation_b, pos_b, penetration)
        ELSE IF RGt(dot(VSub(center, v1.position), v1.normal), radius_a) THEN None
        ELSE Toward(penetration, VNeg(MatMulVec(orientation_b, v1.normal)))

\* circle_polygon
circle_polygon(i_a, radius_a, body_a, i_b, orientation_b, vertices_b, body_b) ==
    LET Scanned(center) ==
            ClosestFeature(i_a, radius_a, body_a.position, i_b, orientation_b, vertices_b,
                           body_b.position, center,
                           FaceScan(vertices_b, center, radius_a, Len(vertices_b)))
    IN  Scanned(MatMulVec(MatTranspose(orientation_b), VSub(body_a.position, body_b.position)))

\* --------------------------------------------------------------------- scene.rs

\* The index pairs (i, j), i < j < n, in the order the two loops of
\* generate_contact_list visit them (indices from 0).
RECURSIVE PairsFrom(_, _, _)
PairsFrom(i, j, n) ==
    IF i >= n THEN << >>
    ELSE IF j >= n THEN PairsFrom(i + 1, i + 2, n)
    ELSE <<<<i, j>>>> \o PairsFrom(i, j + 1, n)
Pairs(n) == PairsFrom(0, 1, n)

\* The body at Rust index i.
At(bs, i) == bs[i + 1]

\* No pair skipped: two static bodies reach the shape dispatch like any other pair.
NeverStatic(body_a, body_b) == FALSE

\* The skip taken when either body is static.
EitherStatic(body_a, body_b) == body_a.inv_mass = Zero \/ body_b.inv_mass = Zero

\* The pair (i, j) is skipped before the shape dispatch.
BothStatic(body_a, body_b) == body_a.inv_mass = Zero /\ body_b.inv_mass = Zero

\* The match arm of generate_contact_list for one pair: an Option<ManifoldData>.
NarrowPhase(i, body_a, j, body_b) ==
    IF body_a.shape.kind = "Circle" /\ body_b.shape.kind = "Circle"
    THEN circle_circle(i, body_a.shape.radius, body_a, j, body_b.shape.radius, body_b)
    ELSE IF body_a.shape.kind = "Circle"
    THEN circle_polygon(i, body_a.shape.radius, body_a,
                        j, body_b.shape.orientation, body_b.shape.vertices, body_b)
    ELSE circle_polygon(j, body_b.shape.radius, body_b,
                        i, body_a.shape.orientation, body_a.shape.vertices, body_a)

\* The arm `_ => unimplemented!()` is taken for the pair.
Unimplemented(body_a, body_b) ==
    body_a.shape.kind = "Polygon" /\ body_b.shape.kind = "Polygon"

\* generate_contact_list over the first k pairs: [panic, ret].
RECURSIVE ContactScan(_, _, _)
ContactScan(bs, pairs, k) ==
    IF k = 0 THEN [panic |-> FALSE, ret |-> << >>]
    ELSE LET prev == ContactScan(bs, pairs, k - 1)
             i == pairs[k][1]
             j == pairs[k][2]
             body_a == At(bs, i)
             body_b == At(bs, j)
         IN  IF prev.panic THEN prev
             ELSE IF BothStatic(body_a, body_b) THEN prev
             ELSE IF Unimplemented(body_a, body_b) THEN [prev EXCEPT !.panic = TRUE]
             ELSE [prev EXCEPT !.ret = prev.ret \o NarrowPhase(i, body_a, j, body_b)]

generate_contact_list(bs) == ContactScan(bs, Pairs(Len(bs)), Len(Pairs(Len(bs))))

\* get_two_mut handing out (start, end) in slice order whichever index is larger.
get_two_mut_unswapped(bs, i_a, i_b) ==
    IF ~(i_a # i_b) \/ ~(i_a < Len(bs)) \/ ~(i_b < Len(bs))
    THEN [panic |-> TRUE]
    ELSE IF i_a < i_b
    THEN [panic |-> FALSE, a |-> At(bs, i_a), b |-> At(bs, i_b)]
    ELSE [panic |-> FALSE, a |-> At(bs, i_b), b |-> At(bs, i_a)]

\* Scene::get_two_mut: [panic, a, b]; the split_at_mut of the code is followed.
get_two_mut(bs, i_a, i_b) ==
    IF ~(i_a # i_b) \/ ~(i_a < Len(bs)) \/ ~(i_b < Len(bs))
    THEN [panic |-> TRUE]
    ELSE IF i_a < i_b
    THEN LET start == SubSeq(bs, 1, i_a + 1)
             end == SubSeq(bs, i_a + 2, Len(bs))
             start_len == Len(start)
         IN  [panic |-> FALSE, a |-> At(start, i_a), b |-> At(end, i_b - start_len)]
    ELSE LET start == SubSeq(bs, 1, i_b + 1)
             end == SubSeq(bs, i_b + 2, Len(bs))
             start_len == Len(start)
         IN  [panic |-> FALSE, a |-> At(end, i_a - start_len), b |-> At(start, i_b)]

\* The write-back when the first reference is to a copy: only body_b is changed.
PutSecond(bs, i_a, i_b, body_a, body_b) ==
    [n \in 1..Len(bs) |-> IF n = i_b + 1 THEN body_b ELSE bs[n]]

\* The bodies with the two mutable references of get_two_mut written back.
PutTwo(bs, i_a, i_b, body_a, body_b) ==
    [n \in 1..Len(bs) |-> IF n = i_a + 1 THEN body_a ELSE IF n = i_b + 1 THEN body_b ELSE bs[n]]

\* The relative velocity of the contact point, as apply_impulse computes it.
RelativeVelocity(body_a, body_b, ra, rb) ==
    VSub(VSub(VAdd(body_b.velocity, cross_real_vector(body_b.angular_velocity, rb)),
              body_a.velocity),
         cross_real_vector(body_a.angular_velocity, ra))

\* The friction branch applying jt along t whatever its size.
TangentImpulseUnclamped(m, t, j, jt) == VScale(t, jt)

\* The friction branch of apply_impulse: the tangent impulse for jt along t.
TangentImpulse(m, t, j, jt) ==
    IF RLt(RAbs(jt), RMul(j, m.sf)) THEN VScale(t, jt)
    ELSE VScale(VScale(t, RNeg(j)), m.df)

\* Scene::apply_impulse after its loop over the first k contacts:
\* [a, b, returned, applied]; applied lists, for each tangent impulse applied,
\* the normal impulse magnitude j, jt and the impulse.
RECURSIVE ImpulseLoop(_, _, _, _)
ImpulseLoop(m, body_a0, body_b0, k) ==
    IF k = 0 THEN [a |-> body_a0, b |-> body_b0, returned |-> FALSE, applied |-> << >>]
    ELSE LET prev == ImpulseLoop(m, body_a0, body_b0, k - 1)
             contact == m.contacts[k]
             n == R(Len(m.contacts), 1)
             ra == VSub(contact, prev.a.position)
             rb == VSub(contact, prev.b.position)
             rv == RelativeVelocity(prev.a, prev.b, ra, rb)
             ra_cross_n == cross_vectors(ra, m.normal)
             rb_cross_n == cross_vectors(rb, m.normal)
             inv_mass_sum ==
                 RAdd(RAdd(RAdd(prev.a.inv_mass, prev.b.inv_mass),
                           RMul(RSq(ra_cross_n), prev.a.inv_inertia)),
                      RMul(RSq(rb_cross_n), prev.b.inv_inertia))
             \* lines 228-240: the early return on a negligible jt, else the tangent impulse
             Friction(a1, b1, j, t, jt, tangent_impulse) ==
                 IF float_cmp(jt, Zero)
                 THEN [prev EXCEPT !.a = a1, !.b = b1, !.returned = TRUE]
                 ELSE [a |-> body_apply_impulse(a1, VNeg(tangent_impulse), ra),
                       b |-> body_apply_impulse(b1, tangent_impulse, rb),
                       returned |-> FALSE,
                       applied |-> Append(prev.applied,
                           [j |-> j, jt |-> jt, sf |-> m.sf, df |-> m.df,
                            tangent_impulse |-> tangent_impulse])]
             \* line 226: jt, along the tangent t
             Along(a1, b1, j, rv1, t) ==
                 LET WithJt(jt) == Friction(a1, b1, j, t, jt, TangentImpulse(m, t, j, jt))
                 IN  WithJt(RDiv(RDiv(RNeg(dot(rv1, t)), inv_mass_sum), n))
             \* lines 217-222: the tangent t of the relative velocity rv1
             Tangent(a1, b1, j, rv1) ==
                 LET Normalized(t) == IF ~float_cmp(magnitude(t), Zero) THEN normalize(t) ELSE t
                     WithT(t) == Along(a1, b1, j, rv1, t)
                 IN  WithT(Normalized(VSub(rv1, VScale(m.normal, dot(rv1, m.normal)))))
             \* lines 209-210: the relative velocity after the normal impulse
             Applied(a1, b1, j) == Tangent(a1, b1, j, RelativeVelocity(a1, b1, ra, rb))
             \* lines 186-204: the early return on separating bodies, else j and its impulse
             Normal(contact_vel) ==
                 LET WithJ(j) ==
                         Applied(body_apply_impulse(prev.a, VNeg(VScale(m.normal, j)), ra),
                                 body_apply_impulse(prev.b, VScale(m.normal, j), rb), j)
                 IN  IF RGt(contact_vel, Zero) THEN [prev EXCEPT !.returned = TRUE]
                     ELSE WithJ(RDiv(RDiv(RMul(RNeg(RAdd(One, m.e)), contact_vel),
                                          inv_mass_sum), n))
         IN  IF prev.returned THEN prev ELSE Normal(dot(rv, m.normal))

\* Scene::apply_impulse: [panic, bodies, applied].
apply_impulse(bs, m) ==
    LET Resolve(body_a, body_b) ==
            LET Done(loop) ==
                    [panic |-> FALSE, applied |-> loop.applied,
                     bodies |-> PutTwo(bs, m.pair[1], m.pair[2], loop.a, loop.b)]
            IN  IF float_cmp(RAdd(body_a.inv_mass, body_b.inv_mass), Zero)
                THEN [panic |-> FALSE, applied |-> << >>,
                      bodies |-> PutTwo(bs, m.pair[1], m.pair[2],
                                        [body_a EXCEPT !.velocity = VZero],
                                        [body_b EXCEPT !.velocity = VZero])]
                ELSE Done(ImpulseLoop(m, body_a, body_b, Len(m.contacts)))
        Got(two) ==
            IF two.panic THEN [panic |-> TRUE, bodies |-> bs, applied |-> << >>]
            ELSE Resolve(two.a, two.b)
    IN  Got(get_two_mut(bs, m.pair[1], m.pair[2]))

\* positional_correct moving the bodies by the whole penetration, slop included.
positional_correct_whole(bs, m) ==
    LET two == get_two_mut(bs, m.pair[1], m.pair[2])
        correction ==
            VScale(m.normal, RDiv(m.penetration, RAdd(two.a.inv_mass, two.b.inv_mass)))
        body_a == [two.a EXCEPT !.position = VSub(two.a.position, VScale(correction, two.a.inv_mass))]
        body_b == [two.b EXCEPT !.position = VAdd(two.b.position, VScale(correction, two.b.inv_mass))]
    IN  IF two.panic THEN [panic |-> TRUE, bodies |-> bs]
        ELSE [panic |-> FALSE, bodies |-> PutTwo(bs, m.pair[1], m.pair[2], body_a, body_b)]

\* Scene::positional_correct: [panic, bodies].
positional_correct(bs, m) ==
    LET two == get_two_mut(bs, m.pair[1], m.pair[2])
        k_slop == R(5, 100)
        percent == R(4, 10)
        correction ==
            VScale(VScale(m.normal,
                       RDiv(RMax(RSub(m.penetration, k_slop), Zero),
                            RAdd(two.a.inv_mass, two.b.inv_mass))),
                   percent)
        body_a == [two.a EXCEPT !.position = VSub(two.a.position, VScale(correction, two.a.inv_mass))]
        body_b == [two.b EXCEPT !.position = VAdd(two.b.position, VScale(correction, two.b.inv_mass))]
    IN  IF two.panic THEN [panic |-> TRUE, bodies |-> bs]
        ELSE [panic |-> FALSE, bodies |-> PutTwo(bs, m.pair[1], m.pair[2], body_a, body_b)]

\* The loop of step over the first k contacts with positional_correct.
RECURSIVE CorrectAll(_, _, _)
CorrectAll(bs, ms, k) ==
    IF k = 0 THEN [panic |-> FALSE, bodies |-> bs]
    ELSE LET prev == CorrectAll(bs, ms, k - 1)
         IN  IF prev.panic THEN prev ELSE positional_correct(prev.bodies, ms[k])

\* ---------------------------------------------------------------------- main.rs

create_circle_with_density(radius, x, y, dynamic, density) ==
    LET Made(b) == IF ~dynamic THEN set_static(b) ELSE b
    IN  Made(with_density(Circle(radius), Vec2(x, y), density))

create_rect(hw, hh, x, y, orientation, dynamic) ==
    LET Made(b) == IF ~dynamic THEN set_static(b) ELSE b
    IN  Made(set_orient(new_body(rect(Vec2(hw, hh)), Vec2(x, y)), orientation))

\* ------------------------------------------------------------------ the machine

\* Bounds of the model.
MaxBodies == 2
MaxSteps == 2
MaxForces == 1
MaxObliqueSteps == 1
MaxRestSteps == 3
MaxRestForces == 3

\* The arguments of one create_circle_with_density and of one create_rect call
\* (the dynamic flag is drawn apart).
CircleArgs(radius, x, y, density) == [radius |-> radius, x |-> x, y |-> y, density |-> density]
RectArgs(hw, hh, x, y) == [hw |-> hw, hh |-> hh, x |-> x, y |-> y]

\* Densities that give a circle of radius 8 the mass 4, 12 and 32000.
Light == R(113, 5680)
Medium == R(339, 5680)
Heavy == R(11300, 71)

\* The bodies of the scenes of Spec, by the number k of bodies the scene holds
\* already: all on vertical lines, where gravity leaves them.  A circle at
\* (0, 0) or a heavy one at (100, 0), then one 12 below it; a rectangle above
\* the circle the other draw gives, overlapping it by 1/2.
Circles(k) ==
    LET y == IF k % 2 = 0 THEN Zero ELSE R(-12, 1)
    IN  {CircleArgs(R(8, 1), Zero, y, d) : d \in {Light, Medium}}
            \cup {CircleArgs(R(8, 1), R(100, 1), y, Heavy)}
Rects(k) == {RectArgs(R(3, 1), R(1, 1), Zero, IF k % 2 = 0 THEN R(-7, 2) ELSE R(17, 2))}
\* The circles that get an impulse before they are added, and the arguments of
\* apply_impulse: an impulse along the vertical at a point on the vertical through
\* the centre, which starts no spin.
ThrownCircles(k) == {c \in Circles(k) : c.density # Heavy}
Impulses ==
    {[impulse |-> Vec2(Zero, R(-24, 1)), contact_vector |-> VZero],
     [impulse |-> Vec2(Zero, R(48, 1)), contact_vector |-> Vec2(Zero, R(2, 1))]}
Forces == {Vec2(Zero, R(1200000, 1))}
Deltas == {R(1, 50), R(1, 25)}

\* The circles of the scenes of SpecOblique: centres at the same point, 13 apart
\* along (5, -12), 15 apart along (9, -12) and 4 apart along (1, 0).
ObliqueCircles ==
    {CircleArgs(R(8, 1), p[1], p[2], d) :
        p \in {<<Zero, Zero>>, <<R(5, 1), R(-12, 1)>>, <<R(9, 1), R(-12, 1)>>},
        d \in {Light, Medium}}

\* The densities that give a circle of radius 1 the mass 4 and the mass 12.
Small == R(452, 355)
Dense == R(1356, 355)

\* The bodies of the scenes of SpecRest, all on one vertical line: a circle of
\* radius 1 or a rectangle of half-extents (3, 1) at (0, 0); then a circle of
\* radius 1 that overlaps the circle, and the upper face of the rectangle, by 1/2,
\* by 1/20 or by 1/32, or has its centre inside the rectangle.
RestCircles(k) ==
    IF k = 0 THEN {CircleArgs(One, Zero, Zero, Small)}
    ELSE {CircleArgs(One, Zero, y, Small) : y \in {R(-3, 2), R(-39, 20), R(-63, 32), R(-1, 2)}}
             \cup {CircleArgs(One, Zero, R(-3, 2), Dense)}
RestRects(k) == IF k = 0 THEN {RectArgs(R(3, 1), One, Zero, Zero)} ELSE {}
\* The force that holds a body of mass 4 against GRAVITY.
RestForces == {Vec2(Zero, R(-2000, 1))}

\* The arguments of the calls of SpecCircle and SpecMass.
CallRadii == {R(5, 1), R(3, 1)}
CallPositions == {Vec2(Zero, Zero), Vec2(R(8, 1), Zero), Vec2(R(-3, 2), R(6, 1))}
CallOffsets ==
    {Vec2(Zero, Zero), Vec2(R(8, 1), Zero), Vec2(R(10, 1), Zero), Vec2(R(11, 1), Zero),
     Vec2(R(-8, 1), Zero), Vec2(Zero, R(6, 1)), Vec2(R(3, 1), R(4, 1)),
     Vec2(R(-6, 1), R(-8, 1)), Vec2(R(5, 2), R(-6, 1))}
CallRectRadii == {R(1, 1), R(2, 1), R(5, 4), R(1, 16384)}
CallRects == {Vec2(R(3, 1), R(1, 1)), Vec2(R(2, 1), R(2, 1))}
CallRectPositions == {VZero, Vec2(R(1, 1), R(-2, 1))}
CallCentres ==
    {VZero, Vec2(Zero, R(1, 2)), Vec2(Zero, R(5, 2)), Vec2(Zero, R(3, 1)),
     Vec2(Zero, R(4, 1)), Vec2(Zero, R(-3, 1)), Vec2(R(5, 1), Zero), Vec2(R(-4, 1), Zero),
     Vec2(R(1, 1), R(2, 1)), Vec2(R(15, 4), R(2, 1)), Vec2(R(27, 8), R(3, 2)),
     Vec2(R(9, 2), R(3, 1)), Vec2(R(-11, 4), R(-3, 1)), Vec2(R(-19, 8), R(-5, 2)),
     Vec2(R(11, 4), R(3, 1)), Vec2(R(4, 1), R(7, 4)),
     Vec2(R(49153, 16384), R(16385, 16384)), Vec2(R(32769, 16384), R(32769, 16384)),
     Vec2(Zero, R(16385, 16384)), Vec2(R(-32769, 16384), Zero),
     Vec2(R(98305, 32768), R(32769, 32768))}
\* Polygons for the calls of SpecCentroid: a triangle, a rectangle and a pentagon,
\* counter-clockwise with outward unit normals, moved by an offset; and Shape::rect.
Triangle ==
    << PolygonShapeVertex(Vec2(Zero, Zero), Vec2(Zero, RNeg(One))),
       PolygonShapeVertex(Vec2(R(3, 1), Zero), Vec2(R(4, 5), R(3, 5))),
       PolygonShapeVertex(Vec2(Zero, R(4, 1)), Vec2(RNeg(One), Zero)) >>
Pentagon ==
    << PolygonShapeVertex(Vec2(R(-2, 1), R(-1, 1)), Vec2(Zero, RNeg(One))),
       PolygonShapeVertex(Vec2(R(2, 1), R(-1, 1)), Vec2(One, Zero)),
       PolygonShapeVertex(Vec2(R(2, 1), R(1, 1)), Vec2(R(3, 5), R(4, 5))),
       PolygonShapeVertex(Vec2(Zero, R(5, 2)), Vec2(R(-3, 5), R(4, 5))),
       PolygonShapeVertex(Vec2(R(-2, 1), R(1, 1)), Vec2(RNeg(One), Zero)) >>
Moved(vertices, t) ==
    [n \in 1..Len(vertices) |->
        PolygonShapeVertex(VAdd(vertices[n].position, t), vertices[n].normal)]
CallPolygonOffsets ==
    {Vec2(R(1, 1), R(1, 1)), Vec2(R(-2, 1), R(2, 1)), Vec2(R(1, 2), R(-1, 1)),
     Vec2(R(3, 1), R(2, 1)), Vec2(Zero, R(-2, 1)), Vec2(R(-1, 1), R(-3, 1)),
     Vec2(R(2, 1), R(5, 1)), Vec2(R(-3, 1), R(1, 1)), Vec2(R(-1, 1), R(-4, 3))}
CallPolygons ==
    {Moved(base, t) :
        base \in {Triangle, rect(Vec2(R(2, 1), One)).vertices, Pentagon},
        t \in CallPolygonOffsets}
    \cup {rect(Vec2(R(2, 1), One)).vertices}
\* The arguments of the calls of SpecInitialize: body A at rest at the origin, body
\* B at (4, 0) moving and spinning, and the contact point of the manifold: the
\* narrow phase gives every manifold exactly one (circle_circle gives (5/2, 0) for
\* these two circles).
CallContacts ==
    {<<Vec2(R(5, 2), Zero)>>, <<Vec2(R(2, 1), Zero)>>, <<Vec2(R(2, 1), R(3, 1))>>}
CallVelocities == {VZero, Vec2(Zero, R(20, 1)), Vec2(R(6, 1), Zero)}
CallSpins == {Zero, R(4, 1)}
CallRestitutions == {<<R(1, 5), R(1, 2)>>, <<R(1, 2), R(3, 10)>>}
CallFrictions == {<<R(1, 2), R(3, 10)>>, <<R(-1, 2), R(-1, 4)>>}
CallHalfExtents == {R(1, 2), R(1, 1), R(2, 1), R(3, 1), R(5, 1)}
CallDensities == {R(1, 2), R(1, 1), R(2, 1), R(3, 1)}

VARIABLES
    bodies,        \* Scene.bodies
    pc,            \* where Scene::step stands: the phase it runs next, idle or fault
    delta,         \* the argument of the running step
    contact_data,  \* step's local contact_data
    contacts,      \* step's local contacts
    iter,          \* the iteration of the impulse loop, from 0
    ci,            \* the contact the impulse loop takes next, from 1
    steps,         \* the steps completed
    forces,        \* the apply_force calls made
    pre,           \* the bodies as the running (or last) step found them
    before,        \* the bodies as the last Scene::apply_impulse call found them
    applied,       \* the tangent impulses of the last Scene::apply_impulse call
    fault,         \* the panic that ended the process, or "none"
    call           \* a single call of a pure function: its arguments and result

vars == <<bodies, pc, delta, contact_data, contacts, iter, ci, steps, forces, pre,
          before, applied, fault, call>>

stepVars == <<delta, contact_data, contacts, iter, ci, steps, pre, before, applied, fault>>

NoCall == [fn |-> "none"]

\* Scene::new
Init ==
    /\ bodies = << >>
    /\ pc = "idle"
    /\ delta = Zero
    /\ contact_data = << >>
    /\ contacts = << >>
    /\ iter = 0
    /\ ci = 1
    /\ steps = 0
    /\ forces = 0
    /\ pre = << >>
    /\ before = << >>
    /\ applied = << >>
    /\ fault = "none"
    /\ call = NoCall

\* scene.add(create_circle_with_density(..)) with arguments from a set of circles
AddCircleFrom(circles) ==
    /\ pc = "idle"
    /\ Len(bodies) < MaxBodies
    /\ \E c \in circles, dynamic \in BOOLEAN :
          bodies' = Append(bodies,
              create_circle_with_density(c.radius, c.x, c.y, dynamic, c.density))
    /\ UNCHANGED <<pc, stepVars, forces, call>>

AddCircle == AddCircleFrom(Circles(Len(bodies)))

\* let mut circle = create_circle_with_density(..); circle.apply_impulse(..);
\* scene.add(circle)
AddThrownCircle ==
    /\ pc = "idle"
    /\ Len(bodies) < MaxBodies
    /\ \E c \in ThrownCircles(Len(bodies)), dynamic \in BOOLEAN, i \in Impulses :
          bodies' = Append(bodies,
              body_apply_impulse(
                  create_circle_with_density(c.radius, c.x, c.y, dynamic, c.density),
                  i.impulse, i.contact_vector))
    /\ UNCHANGED <<pc, stepVars, forces, call>>

\* scene.add(create_rect(..)), unrotated, with arguments from a set of rectangles
AddRectFrom(rects) ==
    /\ pc = "idle"
    /\ Len(bodies) < MaxBodies
    /\ \E r \in rects, dynamic \in BOOLEAN :
          bodies' = Append(bodies, create_rect(r.hw, r.hh, r.x, r.y, Zero, dynamic))
    /\ UNCHANGED <<pc, stepVars, forces, call>>

AddRect == AddRectFrom(Rects(Len(bodies)))

\* scene.bodies[i].apply_force(f) with a force from a set, at most max times
ApplyForceFrom(fs, max) ==
    /\ pc = "idle"
    /\ forces < max
    /\ \E n \in 1..Len(bodies), f \in fs :
          bodies' = [bodies EXCEPT ![n] = apply_force(bodies[n], f)]
    /\ forces' = forces + 1
    /\ UNCHANGED <<pc, stepVars, call>>

ApplyForce == ApplyForceFrom(Forces, MaxForces)

\* scene.bodies[i].set_static()
SetStatic ==
    /\ pc = "idle"
    /\ \E n \in 1..Len(bodies) :
          /\ bodies[n].inv_mass # Zero
          /\ bodies' = [bodies EXCEPT ![n] = set_static(bodies[n])]
    /\ UNCHANGED <<pc, stepVars, forces, call>>

\* Scene::step, line 36: generate_contact_list, which may panic; at most max steps.
StepBeginWithin(max) ==
    /\ pc = "idle"
    /\ steps < max
    /\ \E d \in Deltas : delta' = d
    /\ pre' = bodies
    /\ LET Generated(g) ==
               IF g.panic
               THEN /\ pc' = "fault"
                    /\ fault' = "unimplemented"
                    /\ contact_data' = << >>
               ELSE /\ pc' = "integrate_forces"
                    /\ fault' = fault
                    /\ contact_data' = g.ret
       IN  Generated(generate_contact_list(bodies))
    /\ contacts' = << >>
    /\ applied' = << >>
    /\ UNCHANGED <<bodies, iter, ci, steps, forces, before, call>>

StepBegin == StepBeginWithin(MaxSteps)

\* Scene::step, lines 38-40
IntegrateForces ==
    /\ pc = "integrate_forces"
    /\ bodies' = [n \in 1..Len(bodies) |-> integrate_forces(bodies[n], delta)]
    /\ pc' = "initialize"
    /\ UNCHANGED <<delta, contact_data, contacts, iter, ci, steps, forces, pre, before,
                   applied, fault, call>>

\* Scene::step, lines 42-46
Initialize ==
    /\ pc = "initialize"
    /\ contacts' = [k \in 1..Len(contact_data) |->
           initialize(contact_data[k], delta,
                      At(bodies, contact_data[k].pair[1]), At(bodies, contact_data[k].pair[2]))]
    /\ iter' = 0
    /\ ci' = 1
    /\ pc' = IF Len(contact_data) = 0 THEN "integrate_velocity" ELSE "apply_impulse"
    /\ UNCHANGED <<bodies, delta, contact_data, steps, forces, pre, before, applied, fault,
                   call>>

\* Scene::step, lines 48-52: one call of apply_impulse.
ApplyImpulse ==
    /\ pc = "apply_impulse"
    /\ before' = bodies
    /\ LET last == ci = Len(contacts)
           Returned(r) ==
               IF r.panic
               THEN /\ pc' = "fault"
                    /\ fault' = "assert"
                    /\ UNCHANGED <<bodies, iter, ci, applied>>
               ELSE /\ bodies' = r.bodies
                    /\ applied' = r.applied
                    /\ fault' = fault
                    /\ ci' = IF last THEN 1 ELSE ci + 1
                    /\ iter' = IF last THEN iter + 1 ELSE iter
                    /\ pc' = IF last /\ iter + 1 = Iterations
                             THEN "integrate_velocity" ELSE "apply_impulse"
       IN  Returned(apply_impulse(bodies, contacts[ci]))
    /\ UNCHANGED <<delta, contact_data, contacts, steps, forces, pre, call>>

\* Scene::step, lines 54-56
IntegrateVelocity ==
    /\ pc = "integrate_velocity"
    /\ bodies' = [n \in 1..Len(bodies) |-> integrate_velocity(bodies[n], delta)]
    /\ pc' = "positional_correct"
    /\ UNCHANGED <<delta, contact_data, contacts, iter, ci, steps, forces, pre, before,
                   applied, fault, call>>

\* Scene::step, lines 58-60
PositionalCorrect ==
    /\ pc = "positional_correct"
    /\ LET Returned(r) ==
               IF r.panic
               THEN /\ pc' = "fault"
                    /\ fault' = "assert"
                    /\ UNCHANGED bodies
               ELSE /\ pc' = "force_reset"
                    /\ fault' = fault
                    /\ bodies' = r.bodies
       IN  Returned(CorrectAll(bodies, contacts, Len(contacts)))
    /\ UNCHANGED <<delta, contact_data, contacts, iter, ci, steps, forces, pre, before,
                   applied, call>>

\* The reset of step skipping static bodies, as the integrators do.
ForceResetDynamic ==
    /\ pc = "force_reset"
    /\ bodies' = [n \in 1..Len(bodies) |->
                      IF bodies[n].inv_mass = Zero THEN bodies[n]
                      ELSE [bodies[n] EXCEPT !.force = VZero, !.torque = Zero]]
    /\ pc' = "idle"
    /\ steps' = steps + 1
    /\ UNCHANGED <<delta, contact_data, contacts, iter, ci, forces, pre, before, applied,
                   fault, call>>

\* Scene::step, lines 62-65
ForceReset ==
    /\ pc = "force_reset"
    /\ bodies' = [n \in 1..Len(bodies) |-> [bodies[n] EXCEPT !.force = VZero, !.torque = Zero]]
    /\ pc' = "idle"
    /\ steps' = steps + 1
    /\ UNCHANGED <<delta, contact_data, contacts, iter, ci, forces, pre, before, applied,
                   fault, call>>

\* The phases of a running step.
StepOn ==
    \/ IntegrateForces
    \/ Initialize
    \/ ApplyImpulse
    \/ IntegrateVelocity
    \/ PositionalCorrect
    \/ ForceReset

Next ==
    \/ AddCircle
    \/ AddThrownCircle
    \/ AddRect
    \/ ApplyForce
    \/ SetStatic
    \/ StepBegin
    \/ StepOn

Spec == Init /\ [][Next]_vars

\* The first step over a scene of circles, static or dynamic, whose centres lie
\* 13, 15 or 4 apart, the first two along neither axis.
ObliqueAddCircle == AddCircleFrom(ObliqueCircles)
ObliqueStepBegin == StepBeginWithin(MaxObliqueSteps)

NextOblique ==
    \/ ObliqueAddCircle
    \/ SetStatic
    \/ ObliqueStepBegin
    \/ StepOn

SpecOblique == Init /\ [][NextOblique]_vars

\* Consecutive steps over a scene of two bodies on one vertical line, a body held
\* against gravity by a force or left to fall.
RestAddCircle == AddCircleFrom(RestCircles(Len(bodies)))
RestAddRect == AddRectFrom(RestRects(Len(bodies)))
RestApplyForce == ApplyForceFrom(RestForces, MaxRestForces)
RestStepBegin == StepBeginWithin(MaxRestSteps)

NextRest ==
    \/ RestAddCircle
    \/ RestAddRect
    \/ RestApplyForce
    \/ RestStepBegin
    \/ StepOn

SpecRest == Init /\ [][NextRest]_vars

\* One call of circle_circle on two fresh circles.
CircleCircleCall ==
    /\ \E radius_a \in CallRadii, radius_b \in CallRadii,
          a \in CallPositions, offset \in CallOffsets :
          LET Called(b) ==
                  [fn |-> "circle_circle", radius_a |-> radius_a, radius_b |-> radius_b,
                   a |-> a, b |-> b,
                   ret |-> circle_circle(0, radius_a, new_body(Circle(radius_a), a),
                                         1, radius_b, new_body(Circle(radius_b), b))]
          IN  call' = Called(VAdd(a, offset))
    /\ UNCHANGED <<bodies, pc, stepVars, forces>>

SpecCircle == Init /\ [][CircleCircleCall]_vars

\* The circle of a call of circle_polygon, which reads its radius and its position
\* only: the mass and inertia are those of the unit circle (those of a circle of
\* radius 1/16384 have denominators beyond the integers of TLC).
CallCircle(radius, position) == [new_body(Circle(One), position) EXCEPT !.shape = Circle(radius)]

\* One call of circle_polygon on a circle and a rectangle, the circle's centre
\* given from the rectangle's.
CirclePolygonCall ==
    /\ \E radius \in CallRectRadii, h \in CallRects, b \in CallRectPositions,
          centre \in CallCentres :
          LET Called(body_a, body_b) ==
                  [fn |-> "circle_polygon", radius |-> radius, h |-> h,
                   a |-> body_a.position, b |-> b,
                   ret |-> circle_polygon(0, radius, body_a, 1, body_b.shape.orientation,
                                          body_b.shape.vertices, body_b)]
          IN  call' = Called(CallCircle(radius, VAdd(b, centre)), new_body(rect(h), b))
    /\ UNCHANGED <<bodies, pc, stepVars, forces>>

SpecPolygon == Init /\ [][CirclePolygonCall]_vars

\* One call of ManifoldData::initialize on a manifold of bodies A and B.
InitializeCall ==
    /\ \E cs \in CallContacts, velocity \in CallVelocities, spin \in CallSpins,
          es \in CallRestitutions, fs \in CallFrictions, d \in Deltas :
          LET Called(data, body_a, body_b) ==
                  [fn |-> "initialize", data |-> data, delta |-> d,
                   body_a |-> body_a, body_b |-> body_b,
                   ret |-> initialize(data, d, body_a, body_b)]
          IN  call' = Called(ManifoldData(<<0, 1>>, One, Vec2(One, Zero), cs),
                             [new_body(Circle(R(5, 2)), VZero) EXCEPT
                                 !.restitution = es[1],
                                 !.static_friction = fs[1],
                                 !.dynamic_friction = fs[2]],
                             [new_body(Circle(R(5, 2)), Vec2(R(4, 1), Zero)) EXCEPT
                                 !.velocity = velocity,
                                 !.angular_velocity = spin,
                                 !.restitution = es[2]])
    /\ UNCHANGED <<bodies, pc, stepVars, forces>>

SpecInitialize == Init /\ [][InitializeCall]_vars

\* One call of Body::with_density on a rectangle.
WithDensityCall ==
    /\ \E hw \in CallHalfExtents, hh \in CallHalfExtents, density \in CallDensities :
          call' = [fn |-> "with_density", h |-> Vec2(hw, hh), density |-> density,
                   ret |-> with_density(rect(Vec2(hw, hh)), VZero, density)]
    /\ UNCHANGED <<bodies, pc, stepVars, forces>>

SpecMass == Init /\ [][WithDensityCall]_vars

\* One call of Body::with_density on a polygon built from its vertices.
WithDensityPolygonCall ==
    /\ \E vertices \in CallPolygons, density \in CallDensities :
          call' = [fn |-> "with_density_polygon", vertices |-> vertices, density |-> density,
                   ret |-> with_density(Polygon(MatIdentity, vertices), VZero, density)]
    /\ UNCHANGED <<bodies, pc, stepVars, forces>>

SpecCentroid == Init /\ [][WithDensityPolygonCall]_vars

\* ------------------------------------------------------------------- properties

\* set_static has been called on the body.
StaticBody(body) == body.inv_mass = Zero /\ body.inv_inertia = Zero

\* Body n (from 1) is one of the two bodies of manifold m.
InPair(n, m) == m.pair[1] = n - 1 \/ m.pair[2] = n - 1

\* C1: no transition, of Scene::step or between steps, changes the position, the
\* orientation or the shape's orientation matrix of a body on which set_static has
\* been called, whatever its force, its velocity and the bodies in contact with it;
\* and the body stays static.
C1_StaticInvariance ==
    [][\A n \in 1..Len(bodies) :
          StaticBody(bodies[n]) =>
              /\ StaticBody(bodies'[n])
              /\ bodies'[n].position = bodies[n].position
              /\ bodies'[n].orient = bodies[n].orient
              /\ bodies'[n].shape = bodies[n].shape]_vars

\* A second step has completed over a static body that entered it with a velocity
\* (it was made static in flight) and a force, in contact with a body that moved.
C1_Witness ==
    /\ pc = "idle"
    /\ steps = 2
    /\ Len(bodies) = Len(pre)
    /\ \E n \in 1..Len(pre), k \in 1..Len(contacts), o \in 1..Len(pre) :
          /\ StaticBody(pre[n])
          /\ pre[n].velocity # VZero
          /\ pre[n].force # VZero
          /\ InPair(n, contacts[k])
          /\ InPair(o, contacts[k])
          /\ bodies[o].position # pre[o].position
          /\ bodies[n].position = pre[n].position

\* C6: every manifold of generate_contact_list carries two distinct indices below
\* bodies.len(), the initialized manifolds carry the same pairs, no assertion of
\* get_two_mut ever fails, and get_two_mut hands out the body at i_a first and the
\* body at i_b second.
C6_NoAlias ==
    /\ fault # "assert"
    /\ Len(contacts) \in {0, Len(contact_data)}
    /\ \A k \in 1..Len(contacts) : contacts[k].pair = contact_data[k].pair
    /\ \A k \in 1..Len(contact_data) :
          LET i_a == contact_data[k].pair[1]
              i_b == contact_data[k].pair[2]
              two == get_two_mut(bodies, i_a, i_b)
          IN  /\ i_a # i_b
              /\ i_a \in 0..(Len(bodies) - 1)
              /\ i_b \in 0..(Len(bodies) - 1)
              /\ ~two.panic
              /\ two.a = bodies[i_a + 1]
              /\ two.b = bodies[i_b + 1]

\* A step has completed over a manifold whose first index is the larger one (a
\* polygon added before the circle that touches it).
C6_Witness ==
    /\ pc = "idle"
    /\ steps > 0
    /\ \E k \in 1..Len(contacts) : contacts[k].pair[1] > contacts[k].pair[2]

\* Some pair i < j of polygons is not both static.
PolygonPair(bs) ==
    \E i \in 1..Len(bs), j \in 1..Len(bs) :
        /\ i < j
        /\ bs[i].shape.kind = "Polygon"
        /\ bs[j].shape.kind = "Polygon"
        /\ ~(bs[i].inv_mass = Zero /\ bs[j].inv_mass = Zero)

\* C7: a step ends in the fault of the unsupported pair exactly when the bodies it
\* found hold a pair of polygons not both static, and then it has changed no body;
\* otherwise (two static polygons included) it meets no fault and is always in a
\* phase that has a next one, up to the end of the step.
C7_UnsupportedPair ==
    /\ fault \in {"none", "unimplemented"}
    /\ (pc = "fault") <=> (fault = "unimplemented")
    /\ pc = "fault" => (PolygonPair(pre) /\ bodies = pre)
    /\ pc \notin {"idle", "fault"} =>
          /\ ~PolygonPair(pre)
          /\ pc \in {"integrate_forces", "initialize", "apply_impulse", "integrate_velocity",
                     "positional_correct", "force_reset"}
          /\ pc = "apply_impulse" => (ci \in 1..Len(contacts) /\ iter \in 0..(Iterations - 1))
    /\ (pc = "idle" /\ steps > 0) => ~PolygonPair(pre)

\* A step has faulted on a static polygon and a dynamic one.
C7_Witness ==
    /\ pc = "fault"
    /\ \E i \in 1..Len(bodies), j \in 1..Len(bodies) :
          /\ bodies[i].shape.kind = "Polygon" /\ bodies[i].inv_mass = Zero
          /\ bodies[j].shape.kind = "Polygon" /\ bodies[j].inv_mass # Zero

\* C9: the transition that completes a step leaves every body, static or dynamic,
\* with force (0, 0) and torque 0.
C9_ForceReset ==
    [][steps' = steps + 1 =>
          \A n \in 1..Len(bodies') :
              bodies'[n].force = VZero /\ bodies'[n].torque = Zero]_vars

\* A step has completed over a body that entered it with a force.
C9_Witness ==
    /\ pc = "idle"
    /\ steps > 0
    /\ Len(bodies) = Len(pre)
    /\ \E n \in 1..Len(pre) : pre[n].force # VZero /\ bodies[n].force = VZero

\* C10: after a step over a scene of one dynamic circle with no force, velocity.y
\* is greater than before, by GRAVITY.y * delta, velocity.x is unchanged, and the
\* position has advanced by delta times the velocity held after the first half-step.
C10_LoneFall ==
    (/\ pc = "idle"
     /\ steps > 0
     /\ Len(pre) = 1
     /\ pre[1].shape.kind = "Circle"
     /\ pre[1].inv_mass # Zero
     /\ pre[1].force = VZero)
    => LET half == VAdd(pre[1].velocity, VScale(GRAVITY, RDiv(delta, R(2, 1))))
       IN  /\ RLt(pre[1].velocity.y, bodies[1].velocity.y)
           /\ bodies[1].velocity.y = RAdd(pre[1].velocity.y, RMul(GRAVITY.y, delta))
           /\ bodies[1].velocity.x = pre[1].velocity.x
           /\ bodies[1].position = VAdd(pre[1].position, VScale(half, delta))

\* A lone dynamic circle has completed its second step, entered while falling.
C10_Witness ==
    /\ pc = "idle"
    /\ steps = 2
    /\ Len(bodies) = 1
    /\ Len(pre) = 1
    /\ pre[1].shape.kind = "Circle"
    /\ pre[1].inv_mass # Zero
    /\ pre[1].force = VZero
    /\ RGt(pre[1].velocity.y, Zero)
    /\ RGt(bodies[1].position.y, pre[1].position.y)

\* C5: circle_circle returns a contact exactly when the squared distance of the
\* centres is less than the square of the radius sum; a contact of distinct centres
\* has penetration = radius sum - distance (the distance being the non-negative
\* number whose square is the squared distance) and normal = (b - a) / distance.
\* Circles of radius 5 at (0, 0) and (8, 0) give penetration 2 and normal (1, 0);
\* at (0, 0) and (10, 0), or (11, 0), they give no contact.
C5_CircleCircle ==
    call.fn = "circle_circle" =>
        LET centre_delta == VSub(call.b, call.a)
            dist_sq == len_sqr(centre_delta)
            radius == RAdd(call.radius_a, call.radius_b)
            fives == call.radius_a = R(5, 1) /\ call.radius_b = R(5, 1) /\ call.a = VZero
        IN  /\ (call.ret # None) <=> RLt(dist_sq, RSq(radius))
            /\ (call.ret # None /\ call.a # call.b) =>
                  LET distance == RSub(radius, call.ret[1].penetration)
                  IN  /\ RGt(distance, Zero)
                      /\ RSq(distance) = dist_sq
                      /\ VScale(call.ret[1].normal, distance) = centre_delta
            /\ (fives /\ call.b = Vec2(R(8, 1), Zero)) =>
                  /\ call.ret # None
                  /\ call.ret[1].penetration = R(2, 1)
                  /\ call.ret[1].normal = Vec2(One, Zero)
            /\ (fives /\ call.b \in {Vec2(R(10, 1), Zero), Vec2(R(11, 1), Zero)}) =>
                  call.ret = None

\* circle_circle has been called on two circles that touch, their centres apart by
\* exactly the radius sum along neither axis, and has returned no contact.
C5_Witness ==
    /\ call.fn = "circle_circle"
    /\ call.a.x # call.b.x
    /\ call.a.y # call.b.y
    /\ dist_sqr(call.a, call.b) = RSq(RAdd(call.radius_a, call.radius_b))
    /\ call.ret = None

\* C8: a polygon body built by Body::with_density with density d has mass = d times
\* the polygon's area (4 * hx * hy for Shape::rect of half-extents (hx, hy)) and
\* moment_inertia = d times the second moment compute_mass accumulates, with
\* inv_mass = 1 / mass and inv_inertia = 1 / moment_inertia, or 0 for a value of 0.
C8_PolygonMass ==
    call.fn = "with_density" =>
        LET area == RMul(R(4, 1), RMul(call.h.x, call.h.y))
            vertices == rect(call.h).vertices
            second_moment == PolygonAccumulate(vertices, NumChunks(vertices)).i
            mass == RMul(call.density, area)
            moment_inertia == RMul(call.density, second_moment)
        IN  /\ call.ret.mass = mass
            /\ call.ret.moment_inertia = moment_inertia
            /\ call.ret.inv_mass = IF mass # Zero THEN RDiv(One, mass) ELSE Zero
            /\ call.ret.inv_inertia =
                   IF moment_inertia # Zero THEN RDiv(One, moment_inertia) ELSE Zero

\* C2 as stated: every tangent impulse apply_impulse applies is at most df * j long,
\* j being the normal impulse magnitude of the same contact.
C2_FrictionClamp ==
    \A k \in 1..Len(applied) :
        RLe(len_sqr(applied[k].tangent_impulse), RSq(RMul(applied[k].df, applied[k].j)))

\* C2, amended: a tangent impulse apply_impulse applies is shorter than sf * j when
\* |jt| < sf * j (jt is applied as it is, and may exceed df * j), and is exactly
\* df * j long otherwise; j is never negative.
C2_FrictionBound ==
    \A k \in 1..Len(applied) :
        LET a == applied[k]
        IN  /\ RGe(a.j, Zero)
            /\ IF RLt(RAbs(a.jt), RMul(a.j, a.sf))
               THEN /\ len_sqr(a.tangent_impulse) = RSq(a.jt)
                    /\ RLt(len_sqr(a.tangent_impulse), RSq(RMul(a.sf, a.j)))
               ELSE len_sqr(a.tangent_impulse) = RSq(RMul(a.df, a.j))

\* A call of apply_impulse has applied a tangent impulse longer than df * j and
\* shorter than sf * j, with the default coefficients sf = 0.5 and df = 0.3.
C2_Witness ==
    \E k \in 1..Len(applied) :
        LET a == applied[k]
        IN  /\ a.sf = R(1, 2)
            /\ a.df = R(3, 10)
            /\ RGt(a.j, Zero)
            /\ RGt(len_sqr(a.tangent_impulse), RSq(RMul(a.df, a.j)))
            /\ RLt(len_sqr(a.tangent_impulse), RSq(RMul(a.sf, a.j)))

\* mass_a * velocity_a + mass_b * velocity_b
Momentum(body_a, body_b) ==
    VAdd(VScale(body_a.velocity, body_a.mass), VScale(body_b.velocity, body_b.mass))

\* Two dynamic bodies of equal mass.
EqualMassPair(body_a, body_b) ==
    body_a.inv_mass # Zero /\ body_b.inv_mass # Zero /\ body_a.mass = body_b.mass

\* C3 as stated: every call of Scene::apply_impulse on the manifold of two dynamic
\* bodies of equal mass, whatever that mass, leaves their combined linear momentum
\* unchanged.
C3_Momentum ==
    [][(pc = "apply_impulse" /\ pc' # "fault") =>
          LET i_a == contacts[ci].pair[1]
              i_b == contacts[ci].pair[2]
          IN  EqualMassPair(At(bodies, i_a), At(bodies, i_b)) =>
                  Momentum(At(bodies', i_a), At(bodies', i_b))
                      = Momentum(At(bodies, i_a), At(bodies, i_b))]_vars

\* C3, amended: every call of Scene::apply_impulse on the manifold of two dynamic
\* bodies of equal mass whose inverse masses sum to more than EPSILON leaves their
\* combined linear momentum unchanged (a pair so heavy that the sum is within
\* EPSILON of 0 has both velocities set to zero instead).
C3_MomentumAboveEpsilon ==
    [][(pc = "apply_impulse" /\ pc' # "fault") =>
          LET i_a == contacts[ci].pair[1]
              i_b == contacts[ci].pair[2]
          IN  (/\ EqualMassPair(At(bodies, i_a), At(bodies, i_b))
               /\ RGt(RAdd(At(bodies, i_a).inv_mass, At(bodies, i_b).inv_mass), EPSILON)) =>
                  Momentum(At(bodies', i_a), At(bodies', i_b))
                      = Momentum(At(bodies, i_a), At(bodies, i_b))]_vars

\* A call of apply_impulse of the running step has changed the velocities of two
\* dynamic bodies of equal mass, not too heavy, and kept their momentum.
C3_Witness ==
    /\ pc = "apply_impulse"
    /\ iter >= 1
    /\ Len(bodies) = 2
    /\ Len(before) = 2
    /\ EqualMassPair(before[1], before[2])
    /\ RGt(RAdd(before[1].inv_mass, before[2].inv_mass), EPSILON)
    /\ bodies[1].velocity # before[1].velocity
    /\ bodies[2].velocity # before[2].velocity
    /\ Momentum(bodies[1], bodies[2]) = Momentum(before[1], before[2])

\* The slop of positional_correct.
Slop == R(5, 100)

\* A step has completed over a scene of two overlapping bodies that had no relative
\* velocity when it began and have none now.
PairAtRest ==
    /\ pc = "idle"
    /\ steps > 0
    /\ Len(pre) = 2
    /\ Len(contact_data) = 1
    /\ pre[1].velocity = pre[2].velocity
    /\ pre[1].angular_velocity = Zero
    /\ pre[2].angular_velocity = Zero
    /\ bodies[1].velocity = bodies[2].velocity
    /\ bodies[1].angular_velocity = Zero
    /\ bodies[2].angular_velocity = Zero

\* The penetration the next step would report for the pair is no more than the one
\* this step reported, less if that was above the slop, not below the slop if that
\* was not, and of the same sign along the same normal.
PenetrationReduced ==
    LET reported == contact_data[1]
        next == NarrowPhase(0, bodies[1], 1, bodies[2])
    IN  /\ next # None
        /\ RLe(next[1].penetration, reported.penetration)
        /\ RGt(reported.penetration, Slop) => RLt(next[1].penetration, reported.penetration)
        /\ RGe(reported.penetration, Slop) => RGe(next[1].penetration, Slop)
        /\ RGt(next[1].penetration, Zero)
        /\ next[1].normal = reported.normal

\* The circle and the polygon of a pair of one circle and one polygon, and the
\* largest signed distance of a face of the polygon to the circle's centre.
CircleOf(bs) == IF bs[1].shape.kind = "Circle" THEN bs[1] ELSE bs[2]
PolygonOf(bs) == IF bs[1].shape.kind = "Circle" THEN bs[2] ELSE bs[1]
PolygonSeparation(bs) ==
    LET polygon == PolygonOf(bs)
        center == MatMulVec(MatTranspose(polygon.shape.orientation),
                            VSub(CircleOf(bs).position, polygon.position))
        distances == {dot(polygon.shape.vertices[k].normal,
                          VSub(center, polygon.shape.vertices[k].position)) :
                         k \in 1..Len(polygon.shape.vertices)}
    IN  CHOOSE s \in distances : \A t \in distances : RLe(t, s)

\* Two circles whose centres differ, or a circle whose centre lies EPSILON or more
\* outside a polygon, nearest to a face of it (the report is along the reversed
\* normal of a face).
BothCircles(bs) == bs[1].shape.kind = "Circle" /\ bs[2].shape.kind = "Circle"
Apart(bs, reported) ==
    IF BothCircles(bs) THEN bs[1].position # bs[2].position
    ELSE /\ RGe(PolygonSeparation(bs), EPSILON)
         /\ \E k \in 1..Len(PolygonOf(bs).shape.vertices) :
               reported.normal =
                   VNeg(MatMulVec(PolygonOf(bs).shape.orientation,
                                  PolygonOf(bs).shape.vertices[k].normal))

\* A circle whose centre lies inside a polygon, or less than EPSILON outside it.
Deep(bs) == ~BothCircles(bs) /\ RLt(PolygonSeparation(bs), EPSILON)

\* C4 as stated: over consecutive steps of a scene of one overlapping pair with no
\* relative velocity, the reported penetration never increases, decreases while it
\* is above the slop, never drops below the slop and never changes sign.
C4_CorrectionMonotone == PairAtRest => PenetrationReduced

\* C4, amended: the same for two circles whose centres differ and for a circle
\* EPSILON or more outside a polygon, nearest to a face of it; there a report p
\* above the slop is followed by 0.6 * p + 0.02 and one at or below the slop by
\* itself.  For a circle whose centre is and stays inside the polygon the report
\* is the radius at both steps.
C4_CorrectionMonotoneApart ==
    PairAtRest =>
        LET reported == contact_data[1]
            next == NarrowPhase(0, bodies[1], 1, bodies[2])
        IN  /\ Apart(pre, reported) =>
                  /\ PenetrationReduced
                  /\ next[1].penetration =
                         IF RGt(reported.penetration, Slop)
                         THEN RAdd(RMul(R(6, 10), reported.penetration), R(2, 100))
                         ELSE reported.penetration
            /\ (Deep(pre) /\ Deep(bodies)) =>
                  /\ next # None
                  /\ reported.penetration = CircleOf(pre).shape.radius
                  /\ next[1].penetration = reported.penetration
                  /\ next[1].normal = reported.normal

\* Three steps have completed over a static circle and a dynamic one, 3/2 apart and
\* held against gravity by a force at each step: the reports were 1/2, 0.32 and
\* 0.212, and the next would be 0.1472.
C4_Witness ==
    /\ PairAtRest
    /\ steps = 3
    /\ BothCircles(pre)
    /\ pre[1].inv_mass = Zero
    /\ pre[2].inv_mass # Zero
    /\ pre[2].force # VZero
    /\ pre[2].position = Vec2(Zero, R(-447, 250))
    /\ contact_data[1].penetration = R(212, 1000)
    /\ NarrowPhase(0, bodies[1], 1, bodies[2])[1].penetration = R(1472, 10000)

\* The phases of a step after its first two: manifold initialization from the
\* bodies that hold the first half-step, Iterations rounds of apply_impulse over
\* all manifolds in order, velocity integration of every body, positional
\* correction, force reset.
LaterPhases ==
    /\ pc = "initialize" =>
          /\ pc' \in {"apply_impulse", "integrate_velocity"}
          /\ bodies' = bodies
          /\ bodies = [n \in 1..Len(pre) |-> integrate_forces(pre[n], delta)]
          /\ contacts' = [k \in 1..Len(contact_data) |->
                 initialize(contact_data[k], delta,
                            At(bodies, contact_data[k].pair[1]),
                            At(bodies, contact_data[k].pair[2]))]
          /\ (pc' = "integrate_velocity") <=> (Len(contact_data) = 0)
          /\ iter' = 0 /\ ci' = 1
    /\ pc = "apply_impulse" =>
          /\ pc' \in {"apply_impulse", "integrate_velocity"}
          /\ contacts' = contacts
          /\ (pc' = "integrate_velocity") <=> (iter = Iterations - 1 /\ ci = Len(contacts))
          /\ pc' = "apply_impulse" =>
                IF ci = Len(contacts) THEN iter' = iter + 1 /\ ci' = 1
                ELSE iter' = iter /\ ci' = ci + 1
    /\ pc = "integrate_velocity" =>
          /\ pc' = "positional_correct"
          /\ bodies' = [n \in 1..Len(bodies) |-> integrate_velocity(bodies[n], delta)]
    /\ pc = "positional_correct" => pc' = "force_reset"
    /\ pc = "force_reset" => pc' = "idle"

\* C11 as stated: a step begins with the force integration of every body, the
\* contact generation follows, and the later phases run in order.
C11_PipelineOrder ==
    [][/\ (pc = "idle" /\ pc' # "idle") =>
              /\ pc' \in {"integrate_forces", "fault"}
              /\ bodies' = [n \in 1..Len(bodies) |-> integrate_forces(bodies[n], delta')]
       /\ pc = "integrate_forces" =>
              /\ pc' = "initialize"
              /\ contact_data' = generate_contact_list(bodies).ret
       /\ LaterPhases]_vars

\* The order Scene::step has, where C11 is violated: a step begins with the contact
\* generation, over the bodies as it found them and changing none; the force
\* integration (half-step) of every body follows, and the later phases run in order.
C11_ContactsFirst ==
    [][/\ (pc = "idle" /\ pc' # "idle") =>
              /\ pc' \in {"integrate_forces", "fault"}
              /\ bodies' = bodies
              /\ pc' = "integrate_forces" => contact_data' = generate_contact_list(bodies).ret
       /\ pc = "integrate_forces" =>
              /\ pc' = "initialize"
              /\ contact_data' = contact_data
              /\ bodies' = [n \in 1..Len(bodies) |-> integrate_forces(bodies[n], delta)]
       /\ LaterPhases]_vars

\* For a call of circle_polygon on a rectangle: how far the circle's centre lies
\* beyond the rectangle along x and along y, in the rectangle's frame.
BeyondX == RSub(RAbs(RSub(call.a.x, call.b.x)), call.h.x)
BeyondY == RSub(RAbs(RSub(call.a.y, call.b.y)), call.h.y)

\* The closest feature is a vertex (the centre lies beyond two faces), or a face
\* (beyond one face only); the largest signed distance of a face to the centre, and
\* the outward normals of the faces that have it.
VertexClosest == RGt(BeyondX, Zero) /\ RGt(BeyondY, Zero)
FaceClosest == RGt(RMax(BeyondX, BeyondY), Zero) /\ RLe(RMin(BeyondX, BeyondY), Zero)
FaceSeparation == RMax(BeyondX, BeyondY)
FaceNormals ==
    {n \in {Vec2(One, Zero), Vec2(RNeg(One), Zero), Vec2(Zero, One), Vec2(Zero, RNeg(One))} :
        RSub(dot(n, VSub(call.a, call.b)), IF n.x # Zero THEN call.h.x ELSE call.h.y)
            = FaceSeparation}
VertexBeyondRadius == RGt(RAdd(RSq(BeyondX), RSq(BeyondY)), RSq(call.radius))

\* The nearest vertex is farther from the centre than the radius: no contact.
VertexDiscard == (VertexClosest /\ VertexBeyondRadius) => call.ret = None

\* C12 as stated: circle_polygon returns no contact when the closest feature is a
\* vertex farther from the centre than the radius, and when it is the face and
\* radius - separation is not positive; so a centre exactly the radius away from
\* the face gives no contact.
C12_PolygonDiscard ==
    call.fn = "circle_polygon" =>
        /\ VertexDiscard
        /\ (FaceClosest /\ RLe(RSub(call.radius, FaceSeparation), Zero)) => call.ret = None

\* C12, amended: circle_polygon returns no contact exactly when a face lies farther
\* from the centre than the radius (radius - separation negative), or the
\* separation is at least EPSILON and the closest feature is a vertex farther from
\* the centre than the radius.  A separation below EPSILON gives a contact of
\* penetration radius along the reversed normal of the face, whatever the distance
\* of the vertex; a face as the closest feature at a separation from EPSILON up to
\* the radius gives one of penetration radius - separation, 0 at the radius itself,
\* along the reversed normal of the face.
C12_PolygonDiscardStrict ==
    call.fn = "circle_polygon" =>
        /\ (call.ret = None) <=>
              \/ RGt(FaceSeparation, call.radius)
              \/ RGe(FaceSeparation, EPSILON) /\ VertexClosest /\ VertexBeyondRadius
        /\ (RLe(FaceSeparation, call.radius) /\ RLt(FaceSeparation, EPSILON)) =>
              /\ call.ret # None
              /\ call.ret[1].penetration = call.radius
              /\ VNeg(call.ret[1].normal) \in FaceNormals
        /\ (FaceClosest /\ RLe(FaceSeparation, call.radius) /\ RGe(FaceSeparation, EPSILON)) =>
              /\ call.ret # None
              /\ call.ret[1].penetration = RSub(call.radius, FaceSeparation)
              /\ VNeg(call.ret[1].normal) \in FaceNormals

\* circle_polygon has been called on a circle whose centre lies beyond a corner of
\* the rectangle, less than EPSILON beyond either face and farther from the corner
\* than its radius, and has returned a contact of penetration radius.
C12_CornerWithinEpsilon ==
    /\ call.fn = "circle_polygon"
    /\ VertexClosest
    /\ RLt(FaceSeparation, EPSILON)
    /\ VertexBeyondRadius
    /\ call.ret # None
    /\ call.ret[1].penetration = call.radius

\* circle_polygon has been called on a circle whose centre is exactly its radius
\* away from a face of the rectangle, and has returned a contact of penetration 0
\* along the reversed normal of that face.
C12_Witness ==
    /\ call.fn = "circle_polygon"
    /\ FaceClosest
    /\ FaceSeparation = call.radius
    /\ call.ret # None
    /\ call.ret[1].penetration = Zero
    /\ Cardinality(FaceNormals) = 1
    /\ VNeg(call.ret[1].normal) \in FaceNormals

\* The shoelace sums of a polygon over its first k edges, the edge from the last
\* vertex back to the first included: twice the area, and six times the area times
\* the centroid.
RECURSIVE Shoelace(_, _)
Shoelace(vertices, k) ==
    IF k = 0 THEN [area2 |-> Zero, c6 |-> VZero]
    ELSE LET prev == Shoelace(vertices, k - 1)
             p == vertices[k].position
             q == vertices[IF k < Len(vertices) THEN k + 1 ELSE 1].position
             d == cross_vectors(p, q)
         IN  [area2 |-> RAdd(prev.area2, d),
              c6 |-> VAdd(prev.c6, VScale(VAdd(p, q), d))]

\* The area centroid of a polygon of non-zero area.
AreaCentroid(vertices) ==
    LET sums == Shoelace(vertices, Len(vertices))
    IN  VDiv(sums.c6, RMul(R(3, 1), sums.area2))

\* C13: the polygon of a body built by Body::with_density, of three vertices or
\* more, an odd number included, has its area centroid at the local origin (0, 0).
C13_PolygonCentroid ==
    call.fn = "with_density_polygon" =>
        AreaCentroid(call.ret.shape.vertices) = VZero

\* For a call of initialize: the relative velocity at contact point k is slow, its
\* squared length below |GRAVITY * delta|^2 + EPSILON.
SlowContact(k) ==
    LET contact == call.data.contacts[k]
        rv == RelativeVelocity(call.body_a, call.body_b,
                               VSub(contact, call.body_a.position),
                               VSub(contact, call.body_b.position))
    IN  RLt(len_sqr(rv), RAdd(len_sqr(VScale(GRAVITY, call.delta)), EPSILON))

\* sf and df are the absolute values of body A's frictions, and the geometry of the
\* manifold is that of the ManifoldData.
FrictionOfA ==
    /\ call.ret.sf = RAbs(call.body_a.static_friction)
    /\ call.ret.df = RAbs(call.body_a.dynamic_friction)
    /\ call.ret.pair = call.data.pair
    /\ call.ret.penetration = call.data.penetration
    /\ call.ret.normal = call.data.normal
    /\ call.ret.contacts = call.data.contacts

\* C14: initialize yields e = min(restitution_a, restitution_b), except e = 0 when
\* every contact point of the manifold is slow (the squared relative velocity at
\* the point below |GRAVITY * delta|^2 + EPSILON); sf and df are the absolute
\* values of body A's static and dynamic friction.
C14_Restitution ==
    call.fn = "initialize" =>
        /\ call.ret.e =
               IF \A k \in 1..Len(call.data.contacts) : SlowContact(k) THEN Zero
               ELSE RMin(call.body_a.restitution, call.body_b.restitution)
        /\ call.ret.e \in {Zero, call.body_a.restitution, call.body_b.restitution}
        /\ FrictionOfA

\* initialize has been called on a manifold whose contact point has the relative
\* velocity GRAVITY * delta exactly, slow by the EPSILON of the threshold only, by
\* bodies of positive restitution, A's frictions negative and different from B's,
\* and has returned e = 0.
C14_Witness ==
    /\ call.fn = "initialize"
    /\ Len(call.data.contacts) = 1
    /\ SlowContact(1)
    /\ call.body_b.angular_velocity = Zero
    /\ len_sqr(call.body_b.velocity) = len_sqr(VScale(GRAVITY, call.delta))
    /\ RGt(RMin(call.body_a.restitution, call.body_b.restitution), Zero)
    /\ RLt(call.body_a.static_friction, Zero)
    /\ call.body_a.static_friction # call.body_b.static_friction
    /\ call.ret.e = Zero

\* The inverse-mass sum of the pair of a manifold, over the bodies bs.
InvMassSum(bs, m) == RAdd(At(bs, m.pair[1]).inv_mass, At(bs, m.pair[2]).inv_mass)

\* Every manifold of ms is of a pair of bodies of bs of positive inverse-mass sum.
PositiveSums(bs, ms) ==
    \A k \in 1..Len(ms) :
        /\ ms[k].pair[1] < Len(bs)
        /\ ms[k].pair[2] < Len(bs)
        /\ RGt(InvMassSum(bs, ms[k]), Zero)

\* The manifolds on their way to the solver: the contact list until it is
\* initialized, the initialized manifolds until positional correction is done.
SolverSafe ==
    (\A n \in 1..Len(bodies) : RGe(bodies[n].inv_mass, Zero)) =>
        /\ pc \in {"integrate_forces", "initialize"} => PositiveSums(bodies, contact_data)
        /\ pc \in {"apply_impulse", "integrate_velocity", "positional_correct"} =>
               PositiveSums(bodies, contacts)
        /\ (pc = "apply_impulse" /\ float_cmp(InvMassSum(bodies, contacts[ci]), Zero)) =>
               ~BothStatic(At(bodies, contacts[ci].pair[1]), At(bodies, contacts[ci].pair[2]))

\* C15: with non-negative inverse masses, every manifold that reaches the impulse
\* formula of apply_impulse or positional_correct is of a pair with
\* inv_mass_a + inv_mass_b > 0: the contact list of a step holds no pair of two
\* static bodies, no phase of a step changes an inverse mass, and the infinite-mass
\* branch of apply_impulse is entered only for pairs with a non-static body.
C15_NoZeroMassSum ==
    /\ []SolverSafe
    /\ [][pc \notin {"idle", "fault"} =>
              /\ Len(bodies') = Len(bodies)
              /\ \A n \in 1..Len(bodies) : bodies'[n].inv_mass = bodies[n].inv_mass]_vars

\* The manifold of the last call of apply_impulse.
LastApplied == contacts[IF ci = 1 THEN Len(contacts) ELSE ci - 1]

\* apply_impulse has just taken its infinite-mass branch for a pair of two heavy,
\* non-static bodies (inverse-mass sum positive but within EPSILON of zero), which
\* were moving and now are at rest.
C15_Witness ==
    /\ pc \in {"apply_impulse", "integrate_velocity"}
    /\ iter >= 1 \/ ci > 1
    /\ Len(contacts) >= 1
    /\ Len(before) = Len(bodies)
    /\ float_cmp(InvMassSum(before, LastApplied), Zero)
    /\ RGt(InvMassSum(before, LastApplied), Zero)
    /\ RGt(At(before, LastApplied.pair[1]).inv_mass, Zero)
    /\ RGt(At(before, LastApplied.pair[2]).inv_mass, Zero)
    /\ At(before, LastApplied.pair[1]).velocity # VZero
    /\ At(bodies, LastApplied.pair[1]).velocity = VZero
    /\ At(bodies, LastApplied.pair[2]).velocity = VZero

====
